---- MODULE Spec2Model ----
(***************************************************************************)
(* Role / permission authorization core of the coffee-shop manager         *)
(* backend: the role registry (types/role.ts), the decision functions      *)
(* (helpers/auth.ts) and the manager gate middleware.                       *)
(*                                                                         *)
(* A call is modelled as one step: the caller picks the arguments, the     *)
(* whole function body runs, and the result is left in `ret` (or           *)
(* `permsOut`, or `res`/`nextCalled` for a middleware) until the caller    *)
(* takes it (Return).                                                      *)
(***************************************************************************)
EXTENDS Integers, Sequences, FiniteSets, TLC

VARIABLES
    RoleDefinitions,  \* the registry: Role value -> RoleDefinition
    pc,               \* "idle" (no call in progress) or "done" (a call has run)
    call,             \* the function called and its arguments
    ret,              \* boolean result of a decision function
    threw,            \* TRUE when the call ended in a TypeError instead of a result
    permsOut,         \* array returned by getAllPermissions
    res,              \* status codes the middleware sent on the response, in order
    nextCalled,       \* whether the middleware called next()
    stack,            \* call frames of a getAllPermissions call that is running
    seen,             \* an earlier call and its outcome, kept for comparison
    inflight,         \* requests that have arrived and not yet been answered
    accounts,         \* the Account collection: email -> document
    jwtSecret,        \* whether process.env.JWT_SECRET is set
    issued,           \* payloads of the tokens POST /auth/login has issued
    expired,          \* issued tokens whose exp has passed
    revoked,          \* tokens POST /auth/revoke answered "Token revoked" for
    registering       \* POST /auth/register requests and how far each has got

vars == <<RoleDefinitions, pc, call, ret, threw, permsOut, res, nextCalled,
          stack, seen, inflight, accounts, jwtSecret, issued,
          expired, revoked, registering>>

\* what a single call neither reads nor writes
outside == << seen, inflight, accounts, jwtSecret, issued, expired, revoked,
             registering >>

\* the account store, the environment and the tokens handed out
authVars == << accounts, jwtSecret, issued, expired, revoked, registering >>

----------------------------------------------------------------------------
(* Bounds *)

\* longest requiredPermissions array a caller passes to hasAllPermissions
MaxPerms == 2

\* number of nested getAllPermissions frames the call stack holds; one more
\* raises RangeError (Maximum call stack size exceeded)
MaxStack == 8

\* calls counted between a remembered call and its repetition
MaxBetween == 1

\* requests that can be in flight at the same time
MaxInFlight == 2

\* POST /auth/register requests that can be under way at once
MaxRegistrations == 2

----------------------------------------------------------------------------
(* enum Role, enum Permission *)

Role ==
    [ Admin            |-> "Admin",
      Employee         |-> "Employee",
      Accounting       |-> "Accounting",
      WarehouseManager |-> "WarehouseManager",
      EmployeeManager  |-> "EmployeeManager",
      Customer         |-> "Customer" ]

Permission ==
    [ MANAGE_ALL             |-> "manage_all",
      VIEW_ALL_REPORTS       |-> "view_all_reports",
      MANAGE_WAREHOUSE       |-> "manage_warehouse",
      MANAGE_INVENTORY       |-> "manage_inventory",
      VIEW_WAREHOUSE_REPORTS |-> "view_warehouse_reports",
      MANAGE_EMPLOYEES       |-> "manage_employees",
      VIEW_EMPLOYEES         |-> "view_employees",
      MANAGE_SCHEDULES       |-> "manage_schedules",
      VIEW_EMPLOYEE_RECORDS  |-> "view_employee_records",
      VIEW_OWN_PROFILE       |-> "view_own_profile",
      SUBMIT_REPORTS         |-> "submit_reports",
      VIEW_PRODUCTS          |-> "view_products",
      PLACE_ORDERS           |-> "place_orders",
      MANAGE_SUPPLIERS       |-> "manage_suppliers",
      VIEW_SUPPLIERS         |-> "view_suppliers" ]

\* Object.values(Role), Object.values(Permission)
RoleValues == { Role[k] : k \in DOMAIN Role }
PermissionValues == { Permission[k] : k \in DOMAIN Permission }


\* the registry with one edge added: Customer extends Employee
ShippedRoleDefinitions_cyclic ==
    [ r \in RoleValues |->
        CASE r = Role.Admin ->
               [ isManager |-> FALSE,
                 permissions |-> << Permission.MANAGE_ALL >> ]
          [] r = Role.Accounting ->
               [ isManager |-> TRUE,
                 permissions |-> << Permission.VIEW_ALL_REPORTS,
                                    Permission.VIEW_EMPLOYEE_RECORDS,
                                    Permission.VIEW_WAREHOUSE_REPORTS,
                                    Permission.VIEW_SUPPLIERS >> ]
          [] r = Role.WarehouseManager ->
               [ isManager |-> TRUE,
                 permissions |-> << Permission.MANAGE_WAREHOUSE,
                                    Permission.MANAGE_INVENTORY,
                                    Permission.VIEW_WAREHOUSE_REPORTS,
                                    Permission.VIEW_ALL_REPORTS,
                                    Permission.MANAGE_SUPPLIERS,
                                    Permission.VIEW_SUPPLIERS >> ]
          [] r = Role.EmployeeManager ->
               [ isManager |-> TRUE,
                 extendFrom |-> << Role.Employee >>,
                 permissions |-> << Permission.MANAGE_EMPLOYEES,
                                    Permission.MANAGE_SCHEDULES,
                                    Permission.VIEW_EMPLOYEE_RECORDS,
                                    Permission.VIEW_ALL_REPORTS >> ]
          [] r = Role.Employee ->
               [ isManager |-> FALSE,
                 extendFrom |-> << Role.Customer >>,
                 permissions |-> << Permission.VIEW_OWN_PROFILE,
                                    Permission.SUBMIT_REPORTS,
                                    Permission.VIEW_SUPPLIERS >> ]
          [] r = Role.Customer ->
               [ isManager |-> FALSE,
                 extendFrom |-> << Role.Employee >>,
                 permissions |-> << Permission.VIEW_PRODUCTS,
                                    Permission.PLACE_ORDERS >> ] ]

\* const RoleDefinitions: Record<Role, RoleDefinition>; extendFrom is optional
\* and is a field only of the roles that declare it.
ShippedRoleDefinitions ==
    [ r \in RoleValues |->
        CASE r = Role.Admin ->
               [ isManager |-> FALSE,
                 permissions |-> << Permission.MANAGE_ALL >> ]
          [] r = Role.Accounting ->
               [ isManager |-> TRUE,
                 permissions |-> << Permission.VIEW_ALL_REPORTS,
                                    Permission.VIEW_EMPLOYEE_RECORDS,
                                    Permission.VIEW_WAREHOUSE_REPORTS,
                                    Permission.VIEW_SUPPLIERS >> ]
          [] r = Role.WarehouseManager ->
               [ isManager |-> TRUE,
                 permissions |-> << Permission.MANAGE_WAREHOUSE,
                                    Permission.MANAGE_INVENTORY,
                                    Permission.VIEW_WAREHOUSE_REPORTS,
                                    Permission.VIEW_ALL_REPORTS,
                                    Permission.MANAGE_SUPPLIERS,
                                    Permission.VIEW_SUPPLIERS >> ]
          [] r = Role.EmployeeManager ->
               [ isManager |-> TRUE,
                 extendFrom |-> << Role.Employee >>,
                 permissions |-> << Permission.MANAGE_EMPLOYEES,
                                    Permission.MANAGE_SCHEDULES,
                                    Permission.VIEW_EMPLOYEE_RECORDS,
                                    Permission.VIEW_ALL_REPORTS >> ]
          [] r = Role.Employee ->
               [ isManager |-> FALSE,
                 extendFrom |-> << Role.Customer >>,
                 permissions |-> << Permission.VIEW_OWN_PROFILE,
                                    Permission.SUBMIT_REPORTS,
                                    Permission.VIEW_SUPPLIERS >> ]
          [] r = Role.Customer ->
               [ isManager |-> FALSE,
                 permissions |-> << Permission.VIEW_PRODUCTS,
                                    Permission.PLACE_ORDERS >> ] ]

----------------------------------------------------------------------------
(* Inputs *)

\* Strings a role claim can be without being a Role value: account.role is an
\* unconstrained string (register stores "user"), so a signed token can carry
\* any of them.  "constructor" is a key every plain object inherits.
InvalidRoleClaims == { "", "admin", "user", "WarehouseEmployee", "constructor" }

RoleClaims == RoleValues \cup InvalidRoleClaims

\* arrays of permissions of length 0..MaxPerms
PermissionLists == UNION { [1..n -> PermissionValues] : n \in 0..MaxPerms }

----------------------------------------------------------------------------
(* JavaScript helpers *)

\* the value of `cond ? role : null` when cond is false
null == "<null>"

\* !x for a string-or-null x
Falsy(x) == x = null \/ x = ""

\* Array.prototype.includes
includes(arr, x) == \E i \in 1..Len(arr) : arr[i] = x

\* the set of elements of an array
Elements(arr) == { arr[i] : i \in 1..Len(arr) }

\* a.concat(...arrs): the arrays of arrs appended to a in order
RECURSIVE concat(_, _)
concat(a, arrs) ==
    IF arrs = << >> THEN a ELSE concat(a \o Head(arrs), Tail(arrs))

----------------------------------------------------------------------------
(* types/role.ts *)

isValidRole(role) == role \in RoleValues

getAllPermissions_oneLevel(role) ==
    LET permissions == RoleDefinitions[role].permissions IN
    IF "extendFrom" \in DOMAIN RoleDefinitions[role]
    THEN concat(permissions,
                [ i \in 1..Len(RoleDefinitions[role].extendFrom) |->
                    RoleDefinitions[RoleDefinitions[role].extendFrom[i]].permissions ])
    ELSE permissions


getAllPermissions_noInherit(role) == RoleDefinitions[role].permissions

RECURSIVE getAllPermissions(_)
getAllPermissions(role) ==
    LET permissions == RoleDefinitions[role].permissions IN
    IF "extendFrom" \in DOMAIN RoleDefinitions[role]
    THEN concat(permissions,
                [ i \in 1..Len(RoleDefinitions[role].extendFrom) |->
                    getAllPermissions(RoleDefinitions[role].extendFrom[i]) ])
    ELSE permissions

----------------------------------------------------------------------------
(* helpers/auth.ts *)

\* typeof x === "string" ? (isValidRole(x) ? x : null) : x, for a string x
toRoleEnum(userRole) == IF isValidRole(userRole) THEN userRole ELSE null

\* RoleDefinitions[k].permissions raises a TypeError when k is not a key
derefThrows(roleEnum) == roleEnum \notin DOMAIN RoleDefinitions

hasPermission_directOnly(userRole, requiredPermission) ==
    LET userRoleEnum == toRoleEnum(userRole) IN
    IF Falsy(userRoleEnum) THEN FALSE
    ELSE IF \/ userRoleEnum = Role.Admin
            \/ includes(RoleDefinitions[userRoleEnum].permissions,
                        Permission.MANAGE_ALL)
    THEN TRUE
    ELSE includes(RoleDefinitions[userRoleEnum].permissions, requiredPermission)

hasPermission_noAdminBypass(userRole, requiredPermission) ==
    LET userRoleEnum == toRoleEnum(userRole) IN
    IF Falsy(userRoleEnum) THEN FALSE
    ELSE includes(getAllPermissions(userRoleEnum), requiredPermission)

hasPermission_managerBypass(userRole, requiredPermission) ==
    LET userRoleEnum == toRoleEnum(userRole) IN
    IF Falsy(userRoleEnum) THEN FALSE
    ELSE IF \/ userRoleEnum = Role.Admin
            \/ RoleDefinitions[userRoleEnum].isManager
            \/ includes(RoleDefinitions[userRoleEnum].permissions,
                        Permission.MANAGE_ALL)
    THEN TRUE
    ELSE includes(getAllPermissions(userRoleEnum), requiredPermission)

hasPermission(userRole, requiredPermission) ==
    LET userRoleEnum == toRoleEnum(userRole) IN
    IF Falsy(userRoleEnum) THEN FALSE
    ELSE IF \/ userRoleEnum = Role.Admin
            \/ includes(RoleDefinitions[userRoleEnum].permissions,
                        Permission.MANAGE_ALL)
    THEN TRUE
    ELSE includes(getAllPermissions(userRoleEnum), requiredPermission)

hasPermissionThrows(userRole) ==
    LET userRoleEnum == toRoleEnum(userRole) IN
    ~Falsy(userRoleEnum) /\ derefThrows(userRoleEnum)

hasAllPermissions_noValidation(userRole, requiredPermissions) ==
    \A i \in 1..Len(requiredPermissions) :
        hasPermission(userRole, requiredPermissions[i])

hasAllPermissions_some(userRole, requiredPermissions) ==
    LET userRoleEnum == toRoleEnum(userRole) IN
    IF Falsy(userRoleEnum) THEN FALSE
    ELSE IF userRoleEnum = Role.Admin THEN TRUE
    ELSE \E i \in 1..Len(requiredPermissions) :
            hasPermission(userRoleEnum, requiredPermissions[i])

hasAllPermissions_nonEmpty(userRole, requiredPermissions) ==
    LET userRoleEnum == toRoleEnum(userRole) IN
    IF Falsy(userRoleEnum) THEN FALSE
    ELSE IF userRoleEnum = Role.Admin THEN TRUE
    ELSE /\ Len(requiredPermissions) > 0
         /\ \A i \in 1..Len(requiredPermissions) :
                hasPermission(userRoleEnum, requiredPermissions[i])

hasAllPermissions(userRole, requiredPermissions) ==
    LET userRoleEnum == toRoleEnum(userRole) IN
    IF Falsy(userRoleEnum) THEN FALSE
    ELSE IF userRoleEnum = Role.Admin THEN TRUE
    ELSE \A i \in 1..Len(requiredPermissions) :
            hasPermission(userRoleEnum, requiredPermissions[i])

hasAllPermissionsThrows(userRole, requiredPermissions) ==
    LET userRoleEnum == toRoleEnum(userRole) IN
    /\ ~Falsy(userRoleEnum)
    /\ userRoleEnum # Role.Admin
    /\ Len(requiredPermissions) > 0
    /\ hasPermissionThrows(userRoleEnum)

hasRequiredRole_sameRole(userRole, requiredRole) ==
    LET userRoleEnum == toRoleEnum(userRole)
        requiredRoleEnum == toRoleEnum(requiredRole) IN
    IF Falsy(userRoleEnum) \/ Falsy(requiredRoleEnum) THEN FALSE
    ELSE IF userRoleEnum = Role.Admin THEN TRUE
    ELSE userRoleEnum = requiredRoleEnum

hasRequiredRole_swapped(userRole, requiredRole) ==
    LET userRoleEnum == toRoleEnum(userRole)
        requiredRoleEnum == toRoleEnum(requiredRole) IN
    IF Falsy(userRoleEnum) \/ Falsy(requiredRoleEnum) THEN FALSE
    ELSE IF userRoleEnum = Role.Admin THEN TRUE
    ELSE hasAllPermissions(requiredRoleEnum,
                           RoleDefinitions[userRoleEnum].permissions)

hasRequiredRole_inlineCoverage(userRole, requiredRole) ==
    LET userRoleEnum == toRoleEnum(userRole)
        requiredRoleEnum == toRoleEnum(requiredRole) IN
    IF Falsy(userRoleEnum) \/ Falsy(requiredRoleEnum) THEN FALSE
    ELSE Elements(RoleDefinitions[requiredRoleEnum].permissions)
            \subseteq Elements(getAllPermissions(userRoleEnum))

hasRequiredRole_adminFirst(userRole, requiredRole) ==
    LET userRoleEnum == toRoleEnum(userRole)
        requiredRoleEnum == toRoleEnum(requiredRole) IN
    IF Falsy(userRoleEnum) THEN FALSE
    ELSE IF userRoleEnum = Role.Admin THEN TRUE
    ELSE IF Falsy(requiredRoleEnum) THEN FALSE
    ELSE hasAllPermissions(userRoleEnum,
                           RoleDefinitions[requiredRoleEnum].permissions)

hasRequiredRole(userRole, requiredRole) ==
    LET userRoleEnum == toRoleEnum(userRole)
        requiredRoleEnum == toRoleEnum(requiredRole) IN
    IF Falsy(userRoleEnum) \/ Falsy(requiredRoleEnum) THEN FALSE
    ELSE IF userRoleEnum = Role.Admin THEN TRUE
    ELSE hasAllPermissions(userRoleEnum,
                           RoleDefinitions[requiredRoleEnum].permissions)

hasRequiredRoleThrows(userRole, requiredRole) ==
    LET userRoleEnum == toRoleEnum(userRole)
        requiredRoleEnum == toRoleEnum(requiredRole) IN
    /\ ~Falsy(userRoleEnum)
    /\ ~Falsy(requiredRoleEnum)
    /\ userRoleEnum # Role.Admin
    /\ \/ derefThrows(requiredRoleEnum)
       \/ hasAllPermissionsThrows(userRoleEnum,
                                  RoleDefinitions[requiredRoleEnum].permissions)


compareManagerRoles(userRole, requiredRole) ==
    LET userRoleEnum == toRoleEnum(userRole)
        requiredRoleEnum == toRoleEnum(requiredRole) IN
    IF Falsy(userRoleEnum) \/ Falsy(requiredRoleEnum) THEN FALSE
    ELSE IF userRoleEnum = Role.Admin THEN TRUE
    ELSE IF \/ ~RoleDefinitions[userRoleEnum].isManager
            \/ ~RoleDefinitions[requiredRoleEnum].isManager
    THEN FALSE
    ELSE hasAllPermissions(userRoleEnum,
                           RoleDefinitions[requiredRoleEnum].permissions)

compareManagerRolesThrows(userRole, requiredRole) ==
    LET userRoleEnum == toRoleEnum(userRole)
        requiredRoleEnum == toRoleEnum(requiredRole) IN
    /\ ~Falsy(userRoleEnum)
    /\ ~Falsy(requiredRoleEnum)
    /\ userRoleEnum # Role.Admin
    /\ \/ derefThrows(userRoleEnum)
       \/ derefThrows(requiredRoleEnum)
       \/ /\ RoleDefinitions[userRoleEnum].isManager
          /\ RoleDefinitions[requiredRoleEnum].isManager
          /\ hasAllPermissionsThrows(userRoleEnum,
                                     RoleDefinitions[requiredRoleEnum].permissions)

----------------------------------------------------------------------------
(* middleware/auth/RoleAuth.ts: verifyToken, requireManager *)

\* what jwt.verify yields for a request: the decoded payload when the header
\* carries a token that verifies, nothing otherwise
undefinedUser == [ defined |-> FALSE, role |-> "" ]

\* verifyToken(req, res): the status codes it sends itself, and its result
verifyToken(req) ==
    IF ~req.hasAuthHeader
    THEN [ sent |-> << 401 >>, user |-> undefinedUser ]
    ELSE IF req.tokenOk
         THEN [ sent |-> << >>, user |-> [ defined |-> TRUE, role |-> req.role ] ]
         ELSE [ sent |-> << >>, user |-> undefinedUser ]

\* roleDefinition?.isManager for roleDefinition = RoleDefinitions[user.role]:
\* a key outside the registry gives undefined or an inherited member of
\* Object.prototype, neither of which has a truthy isManager
isManagerFlag(role) ==
    IF role \in DOMAIN RoleDefinitions THEN RoleDefinitions[role].isManager
    ELSE FALSE

requireManagerAllows_flagOnly(role) == isManagerFlag(role)

\* roleDefinition?.isManager || user.role === Role.Admin
requireManagerAllows(role) == isManagerFlag(role) \/ role = Role.Admin


\* requirePermissions: permissions.every((permission) =>
\*                         hasPermission(user.role, permission))
requirePermissionsAllows(role, permissions) ==
    \A i \in 1..Len(permissions) : hasPermission(role, permissions[i])

\* the outcome of a gate of this file: what it sends and whether it calls
\* next(), given what verifyToken did and the gate's own check on user.role
gateOutcome(v, allowed) ==
    IF ~v.user.defined
    THEN [ res |-> v.sent \o << 401 >>, nextCalled |-> FALSE ]
    ELSE IF allowed
         THEN [ res |-> v.sent, nextCalled |-> TRUE ]
         ELSE [ res |-> v.sent \o << 403 >>, nextCalled |-> FALSE ]

----------------------------------------------------------------------------
(* middleware/auth/RoleAuth.ts (default export) and LoginAuth.ts: the gates
   with the jwt.verify callback, used by routes/ExportRoutes.ts *)

\* export default function (roleName: string)
legacyRoleAuth(req, roleName) ==
    IF req.hasAuthHeader
    THEN IF ~req.tokenOk
         THEN [ res |-> << 403 >>, nextCalled |-> FALSE ]
         ELSE IF hasPermission(req.role, roleName)
              THEN [ res |-> << >>, nextCalled |-> TRUE ]
              ELSE [ res |-> << 401 >>, nextCalled |-> FALSE ]
    ELSE [ res |-> << 401 >>, nextCalled |-> FALSE ]

\* LoginAuth: any verified token passes
loginAuth(req) ==
    IF req.hasAuthHeader
    THEN IF ~req.tokenOk
         THEN [ res |-> << 403 >>, nextCalled |-> FALSE ]
         ELSE [ res |-> << >>, nextCalled |-> TRUE ]
    ELSE [ res |-> << 401 >>, nextCalled |-> FALSE ]


----------------------------------------------------------------------------
(* routes/AuthRoutes.ts: POST /auth/login, helpers/errors.ts, bcrypt *)

\* a field the request body does not have
undefined == "<undefined>"

\* emails that can have an account, and one that never has
Emails == { "a@shop", "b@shop" }
LoginEmails == Emails \cup { "nobody@shop" }

\* passwords a client submits; undefined when the body has no password
Passwords == { "password123", "letmein" }
LoginPasswords == Passwords \cup { undefined }

\* bcrypt hash(password, 10)
hash(password) ==
    CASE password = "password123" -> "$2b$10$hash.of.password123"
      [] password = "letmein" -> "$2b$10$hash.of.letmein"

\* bcrypt compare(data, encrypted) rejects with Error("data and hash
\* arguments required") when data is undefined or null
compareThrows(data) == data = undefined \/ data = null

\* bcrypt compare(data, encrypted) otherwise
compare(data, encrypted) == encrypted = hash(data)

\* findOne({ email }) found nothing
NoAccount ==
    [ exists |-> FALSE, isVerified |-> FALSE, isActive |-> FALSE,
      password |-> null, role |-> "" ]

\* documents the collection can hold for one email; the stored password is
\* a bcrypt hash, or null in a document written without one
AccountDocs ==
    { NoAccount } \cup
    [ exists : { TRUE }, isVerified : BOOLEAN, isActive : BOOLEAN,
      password : { hash("password123"), null }, role : { "user" } ]

\* errorCode of the BaseError constants; 500 is what handleError answers for
\* an Error that is not a BaseError
AccountNotFound == 404
AccountForbidden == 403
WrongPassword == 401
InternalError == 500

\* the handler of POST /auth/login on the document findOne returned: the
\* status it answers and whether the answer carries a token
login(account, password, secret) ==
    IF ~account.exists THEN [ status |-> AccountNotFound, token |-> FALSE ]
    ELSE IF ~account.isVerified THEN [ status |-> AccountForbidden, token |-> FALSE ]
    ELSE IF account.password = null THEN [ status |-> WrongPassword, token |-> FALSE ]
    ELSE IF compareThrows(password) THEN [ status |-> InternalError, token |-> FALSE ]
    ELSE IF ~compare(password, account.password)
         THEN [ status |-> WrongPassword, token |-> FALSE ]
    ELSE IF ~account.isActive THEN [ status |-> AccountForbidden, token |-> FALSE ]
    ELSE IF ~secret THEN [ status |-> InternalError, token |-> FALSE ]
    ELSE [ status |-> 200, token |-> TRUE ]

\* AccountModel.findOne({ email })
findOne(email) == IF email \in DOMAIN accounts THEN accounts[email] ELSE NoAccount


----------------------------------------------------------------------------
(* routes/AuthRoutes.ts: POST /auth/register *)

\* password.length
passwordLength(password) ==
    CASE password = "password123" -> 11
      [] password = "letmein" -> 7
      [] password = "short" -> 5

\* request bodies: a complete one for each email, and one for each check
\* the handler makes
GoodBody(email) ==
    [ email |-> email, name |-> "An", password |-> "password123",
      confirmPassword |-> "password123", confirmTOS |-> TRUE ]

RegisterBodies ==
    { GoodBody(e) : e \in Emails } \cup
    { [ GoodBody("a@shop") EXCEPT !.confirmPassword = "letmein" ],
      [ GoodBody("a@shop") EXCEPT !.confirmTOS = FALSE ],
      [ GoodBody("a@shop") EXCEPT !.name = "" ],
      [ GoodBody("a@shop") EXCEPT !.password = "short",
                                  !.confirmPassword = "short" ] }

\* the checks of the first .then callback: the errorCode of what it throws
\* (through .catch and handleError), or 200 when it returns and the next
\* .then answers "Account created"
registerChecks(account, body, secret) ==
    IF account.exists THEN 400
    ELSE IF body.password # body.confirmPassword THEN 400
    ELSE IF ~body.confirmTOS THEN 400
    ELSE IF body.email = "" \/ body.password = "" \/ body.name = "" THEN 400
    ELSE IF passwordLength(body.password) < 8 THEN 400
    ELSE IF ~secret THEN InternalError
    ELSE 200

\* the document AccountModel.create stores (DEBUG unset: the schema defaults)
createdAccount(hashPassword) ==
    [ exists |-> TRUE, isVerified |-> FALSE, isActive |-> TRUE,
      password |-> hashPassword, role |-> "user" ]

\* an empty slot of registering
NoRegistration ==
    [ state |-> "none", email |-> "", password |-> "", res |-> << >> ]

----------------------------------------------------------------------------
(* State machine *)

NoCall ==
    [ fn                  |-> "none",
      userRole            |-> "",
      requiredPermission  |-> "",
      requiredPermissions |-> << >>,
      requiredRole        |-> "",
      hasAuthHeader       |-> FALSE,
      tokenOk             |-> FALSE,
      email               |-> "",
      password            |-> "",
      token               |-> [ email |-> "", role |-> "" ] ]

Requests ==
    [ hasAuthHeader : BOOLEAN, tokenOk : BOOLEAN, role : RoleClaims ]

\* RoleDefinitions[requiredRoleEnum].permissions for every role, and []
RegistryLists ==
    { ShippedRoleDefinitions[r].permissions : r \in RoleValues } \cup { << >> }

\* nothing remembered
NoSeen ==
    [ set |-> FALSE, call |-> NoCall, ret |-> FALSE, threw |-> FALSE,
      res |-> << >>, nextCalled |-> FALSE, between |-> 0 ]

\* the gates the routes mount: requireRole(Role.Employee),
\* requirePermission(Permission.VIEW_EMPLOYEES), requireManager, and
\* requirePermissions with Customer's two permissions
GateRoutes ==
    { [ fn |-> "requireRole", requiredRole |-> Role.Employee,
        requiredPermission |-> "", requiredPermissions |-> << >> ],
      [ fn |-> "requirePermission", requiredRole |-> "",
        requiredPermission |-> Permission.VIEW_EMPLOYEES,
        requiredPermissions |-> << >> ],
      [ fn |-> "requirePermissions", requiredRole |-> "",
        requiredPermission |-> "",
        requiredPermissions |-> << Permission.VIEW_PRODUCTS,
                                   Permission.PLACE_ORDERS >> ],
      [ fn |-> "requireManager", requiredRole |-> "",
        requiredPermission |-> "", requiredPermissions |-> << >> ] }

\* tokens of concurrent requests: one per Role value, one with the role
\* register stores, and one that does not verify
ConcurrentTokens ==
    { [ hasAuthHeader |-> TRUE, tokenOk |-> TRUE, role |-> r ] :
        r \in RoleValues \cup { "user" } }
    \cup { [ hasAuthHeader |-> TRUE, tokenOk |-> FALSE, role |-> "" ] }

\* an empty slot of inflight
NoRequest ==
    [ state |-> "none",
      route |-> [ fn |-> "none", requiredRole |-> "", requiredPermission |-> "",
                  requiredPermissions |-> << >> ],
      token |-> [ hasAuthHeader |-> FALSE, tokenOk |-> FALSE, role |-> "" ],
      res |-> << >>, nextCalled |-> FALSE ]

Init ==
    /\ RoleDefinitions = ShippedRoleDefinitions
    /\ pc = "idle"
    /\ call = NoCall
    /\ ret = FALSE
    /\ threw = FALSE
    /\ permsOut = << >>
    /\ res = << >>
    /\ nextCalled = FALSE
    /\ stack = << >>
    /\ seen = NoSeen
    /\ inflight = [ i \in 1..MaxInFlight |-> NoRequest ]
    /\ accounts = [ e \in Emails |-> NoAccount ]
    /\ jwtSecret = TRUE
    /\ issued = {}
    /\ expired = {}
    /\ revoked = {}
    /\ registering = [ i \in 1..MaxRegistrations |-> NoRegistration ]

\* getAllPermissions(role) called with a Role
CallGetAllPermissions ==
    /\ pc = "idle"
    /\ \E role \in RoleValues :
        /\ call' = [ NoCall EXCEPT !.fn = "getAllPermissions", !.userRole = role ]
        /\ permsOut' = getAllPermissions(role)
    /\ pc' = "done"
    /\ UNCHANGED << RoleDefinitions, stack, ret, threw, res, nextCalled >>
    /\ UNCHANGED outside

\* hasPermission(userRole, requiredPermission) called with any role claim
CallHasPermission ==
    /\ pc = "idle"
    /\ \E userRole \in RoleClaims, requiredPermission \in PermissionValues :
        /\ call' = [ NoCall EXCEPT !.fn = "hasPermission",
                                   !.userRole = userRole,
                                   !.requiredPermission = requiredPermission ]
        /\ threw' = hasPermissionThrows(userRole)
        /\ ret' = IF hasPermissionThrows(userRole) THEN FALSE
                  ELSE hasPermission(userRole, requiredPermission)
    /\ pc' = "done"
    /\ UNCHANGED << RoleDefinitions, stack, permsOut, res, nextCalled >>
    /\ UNCHANGED outside

\* hasAllPermissions(userRole, requiredPermissions) with the array taken
\* from lists
HasAllPermissionsOver(lists) ==
    /\ pc = "idle"
    /\ \E userRole \in RoleClaims, requiredPermissions \in lists :
        /\ call' = [ NoCall EXCEPT !.fn = "hasAllPermissions",
                                   !.userRole = userRole,
                                   !.requiredPermissions = requiredPermissions ]
        /\ threw' = hasAllPermissionsThrows(userRole, requiredPermissions)
        /\ ret' = IF hasAllPermissionsThrows(userRole, requiredPermissions)
                  THEN FALSE
                  ELSE hasAllPermissions(userRole, requiredPermissions)
    /\ pc' = "done"
    /\ UNCHANGED << RoleDefinitions, stack, permsOut, res, nextCalled >>
    /\ UNCHANGED outside

\* hasAllPermissions(userRole, requiredPermissions)
CallHasAllPermissions == HasAllPermissionsOver(PermissionLists)

\* hasAllPermissions as hasRequiredRole and compareManagerRoles call it: with
\* the permissions array of a role
CallHasAllPermissionsOfRole == HasAllPermissionsOver(RegistryLists)

\* hasRequiredRole iterating with requiredPermissions.pop(), which empties
\* the registry's own array of the required role
CallHasRequiredRole_popsList ==
    /\ pc = "idle"
    /\ \E userRole \in RoleClaims, requiredRole \in RoleClaims :
        /\ call' = [ NoCall EXCEPT !.fn = "hasRequiredRole",
                                   !.userRole = userRole,
                                   !.requiredRole = requiredRole ]
        /\ threw' = FALSE
        /\ ret' = hasRequiredRole(userRole, requiredRole)
        /\ RoleDefinitions' =
             IF /\ isValidRole(userRole)
                /\ isValidRole(requiredRole)
                /\ userRole # Role.Admin
             THEN [ RoleDefinitions EXCEPT ![requiredRole].permissions = << >> ]
             ELSE RoleDefinitions
    /\ pc' = "done"
    /\ UNCHANGED << permsOut, res, nextCalled, stack >>
    /\ UNCHANGED outside

\* hasRequiredRole(userRole, requiredRole); both arguments are string | Role
CallHasRequiredRole ==
    /\ pc = "idle"
    /\ \E userRole \in RoleClaims, requiredRole \in RoleClaims :
        /\ call' = [ NoCall EXCEPT !.fn = "hasRequiredRole",
                                   !.userRole = userRole,
                                   !.requiredRole = requiredRole ]
        /\ threw' = hasRequiredRoleThrows(userRole, requiredRole)
        /\ ret' = IF hasRequiredRoleThrows(userRole, requiredRole) THEN FALSE
                  ELSE hasRequiredRole(userRole, requiredRole)
    /\ pc' = "done"
    /\ UNCHANGED << RoleDefinitions, stack, permsOut, res, nextCalled >>
    /\ UNCHANGED outside

\* the middleware returned by requireManager() handles one request
RequireManager ==
    /\ pc = "idle"
    /\ \E req \in Requests :
        LET v == verifyToken(req) IN
        /\ call' = [ NoCall EXCEPT !.fn = "requireManager",
                                   !.userRole = req.role,
                                   !.hasAuthHeader = req.hasAuthHeader,
                                   !.tokenOk = req.tokenOk ]
        /\ IF ~v.user.defined
           THEN /\ res' = v.sent \o << 401 >>
                /\ nextCalled' = FALSE
           ELSE IF requireManagerAllows(v.user.role)
                THEN /\ res' = v.sent
                     /\ nextCalled' = TRUE
                ELSE /\ res' = v.sent \o << 403 >>
                     /\ nextCalled' = FALSE
    /\ pc' = "done"
    /\ UNCHANGED << RoleDefinitions, stack, ret, threw, permsOut >>
    /\ UNCHANGED outside


\* compareManagerRoles(userRole, requiredRole)
CallCompareManagerRoles ==
    /\ pc = "idle"
    /\ \E userRole \in RoleClaims, requiredRole \in RoleClaims :
        /\ call' = [ NoCall EXCEPT !.fn = "compareManagerRoles",
                                   !.userRole = userRole,
                                   !.requiredRole = requiredRole ]
        /\ threw' = compareManagerRolesThrows(userRole, requiredRole)
        /\ ret' = IF compareManagerRolesThrows(userRole, requiredRole) THEN FALSE
                  ELSE compareManagerRoles(userRole, requiredRole)
    /\ pc' = "done"
    /\ UNCHANGED << RoleDefinitions, stack, permsOut, res, nextCalled >>
    /\ UNCHANGED outside

\* the middleware returned by requireRole(roleName) handles one request
RequireRole ==
    /\ pc = "idle"
    /\ \E req \in Requests, roleName \in RoleClaims :
        LET v == verifyToken(req)
            out == gateOutcome(v, hasRequiredRole(v.user.role, roleName)) IN
        /\ call' = [ NoCall EXCEPT !.fn = "requireRole",
                                   !.userRole = req.role,
                                   !.requiredRole = roleName,
                                   !.hasAuthHeader = req.hasAuthHeader,
                                   !.tokenOk = req.tokenOk ]
        /\ res' = out.res
        /\ nextCalled' = out.nextCalled
    /\ pc' = "done"
    /\ UNCHANGED << RoleDefinitions, stack, ret, threw, permsOut >>
    /\ UNCHANGED outside

\* the middleware returned by requirePermission(permission)
RequirePermission ==
    /\ pc = "idle"
    /\ \E req \in Requests, permission \in PermissionValues :
        LET v == verifyToken(req)
            out == gateOutcome(v, hasPermission(v.user.role, permission)) IN
        /\ call' = [ NoCall EXCEPT !.fn = "requirePermission",
                                   !.userRole = req.role,
                                   !.requiredPermission = permission,
                                   !.hasAuthHeader = req.hasAuthHeader,
                                   !.tokenOk = req.tokenOk ]
        /\ res' = out.res
        /\ nextCalled' = out.nextCalled
    /\ pc' = "done"
    /\ UNCHANGED << RoleDefinitions, stack, ret, threw, permsOut >>
    /\ UNCHANGED outside

\* the middleware returned by requirePermissions(permissions)
RequirePermissions ==
    /\ pc = "idle"
    /\ \E req \in Requests, permissions \in PermissionLists :
        LET v == verifyToken(req)
            out == gateOutcome(v, requirePermissionsAllows(v.user.role,
                                                           permissions)) IN
        /\ call' = [ NoCall EXCEPT !.fn = "requirePermissions",
                                   !.userRole = req.role,
                                   !.requiredPermissions = permissions,
                                   !.hasAuthHeader = req.hasAuthHeader,
                                   !.tokenOk = req.tokenOk ]
        /\ res' = out.res
        /\ nextCalled' = out.nextCalled
    /\ pc' = "done"
    /\ UNCHANGED << RoleDefinitions, stack, ret, threw, permsOut >>
    /\ UNCHANGED outside

\* the middleware returned by the default export RoleAuth(roleName)
LegacyRoleAuth ==
    /\ pc = "idle"
    /\ \E req \in Requests, roleName \in RoleClaims :
        LET out == legacyRoleAuth(req, roleName) IN
        /\ call' = [ NoCall EXCEPT !.fn = "RoleAuth",
                                   !.userRole = req.role,
                                   !.requiredRole = roleName,
                                   !.hasAuthHeader = req.hasAuthHeader,
                                   !.tokenOk = req.tokenOk ]
        /\ res' = out.res
        /\ nextCalled' = out.nextCalled
    /\ pc' = "done"
    /\ UNCHANGED << RoleDefinitions, stack, ret, threw, permsOut >>
    /\ UNCHANGED outside

\* the LoginAuth middleware
LoginAuth ==
    /\ pc = "idle"
    /\ \E req \in Requests :
        LET out == loginAuth(req) IN
        /\ call' = [ NoCall EXCEPT !.fn = "LoginAuth",
                                   !.userRole = req.role,
                                   !.hasAuthHeader = req.hasAuthHeader,
                                   !.tokenOk = req.tokenOk ]
        /\ res' = out.res
        /\ nextCalled' = out.nextCalled
    /\ pc' = "done"
    /\ UNCHANGED << RoleDefinitions, stack, ret, threw, permsOut >>
    /\ UNCHANGED outside


\* getAllPermissions(role) is entered: its frame holds the role and the
\* arrays the map over extendFrom has produced so far
ResolveCall ==
    /\ pc = "idle"
    /\ \E role \in RoleValues :
        /\ call' = [ NoCall EXCEPT !.fn = "getAllPermissions", !.userRole = role ]
        /\ stack' = << [ role |-> role, results |-> << >> ] >>
    /\ pc' = "resolving"
    /\ UNCHANGED << RoleDefinitions, ret, threw, permsOut, res, nextCalled >>
    /\ UNCHANGED outside

\* the map callback calling getAllPermissions(role) again instead of
\* getAllPermissions(extendRole)
ResolveStep_sameRole ==
    /\ pc = "resolving"
    /\ LET top == stack[Len(stack)]
           def == RoleDefinitions[top.role]
           hasParents == "extendFrom" \in DOMAIN def
           returned == IF hasParents
                       THEN concat(def.permissions, top.results)
                       ELSE def.permissions
       IN
       IF hasParents /\ Len(top.results) < Len(def.extendFrom)
       THEN IF Len(stack) >= MaxStack
            THEN /\ stack' = << >>
                 /\ threw' = TRUE
                 /\ pc' = "done"
                 /\ UNCHANGED permsOut
            ELSE /\ stack' = Append(stack,
                                    [ role |-> top.role, results |-> << >> ])
                 /\ UNCHANGED << threw, pc, permsOut >>
       ELSE IF Len(stack) = 1
            THEN /\ stack' = << >>
                 /\ permsOut' = returned
                 /\ pc' = "done"
                 /\ UNCHANGED threw
            ELSE /\ stack' =
                      [ SubSeq(stack, 1, Len(stack) - 1) EXCEPT
                          ![Len(stack) - 1].results = Append(@, returned) ]
                 /\ UNCHANGED << threw, pc, permsOut >>
    /\ UNCHANGED << RoleDefinitions, call, ret, res, nextCalled >>
    /\ UNCHANGED outside

\* one step of the running call: the top frame either calls
\* getAllPermissions for its next extendFrom entry or returns its array to
\* the frame below (to the caller when it is the only frame)
ResolveStep ==
    /\ pc = "resolving"
    /\ LET top == stack[Len(stack)]
           def == RoleDefinitions[top.role]
           hasParents == "extendFrom" \in DOMAIN def
           returned == IF hasParents
                       THEN concat(def.permissions, top.results)
                       ELSE def.permissions
       IN
       IF hasParents /\ Len(top.results) < Len(def.extendFrom)
       THEN \* extendFrom.map: the next recursive call
            IF Len(stack) >= MaxStack
            THEN /\ stack' = << >>
                 /\ threw' = TRUE
                 /\ pc' = "done"
                 /\ UNCHANGED permsOut
            ELSE /\ stack' = Append(stack,
                                    [ role |-> def.extendFrom[Len(top.results) + 1],
                                      results |-> << >> ])
                 /\ UNCHANGED << threw, pc, permsOut >>
       ELSE IF Len(stack) = 1
            THEN /\ stack' = << >>
                 /\ permsOut' = returned
                 /\ pc' = "done"
                 /\ UNCHANGED threw
            ELSE /\ stack' =
                      [ SubSeq(stack, 1, Len(stack) - 1) EXCEPT
                          ![Len(stack) - 1].results = Append(@, returned) ]
                 /\ UNCHANGED << threw, pc, permsOut >>
    /\ UNCHANGED << RoleDefinitions, call, ret, res, nextCalled >>
    /\ UNCHANGED outside

\* the call has returned to its caller; nothing of it is kept
Return ==
    /\ pc = "done"
    /\ pc' = "idle"
    /\ call' = NoCall
    /\ ret' = FALSE
    /\ threw' = FALSE
    /\ permsOut' = << >>
    /\ res' = << >>
    /\ nextCalled' = FALSE
    /\ UNCHANGED << RoleDefinitions, stack >>
    /\ UNCHANGED outside


\* the state left when a call has returned
CallCleared ==
    /\ pc' = "idle"
    /\ call' = NoCall
    /\ ret' = FALSE
    /\ threw' = FALSE
    /\ permsOut' = << >>
    /\ res' = << >>
    /\ nextCalled' = FALSE

\* the call returns and the caller keeps its arguments and its outcome
ReturnRemember ==
    /\ pc = "done"
    /\ ~seen.set
    /\ seen' = [ set |-> TRUE, call |-> call, ret |-> ret, threw |-> threw,
                 res |-> res, nextCalled |-> nextCalled, between |-> 0 ]
    /\ CallCleared
    /\ UNCHANGED << RoleDefinitions, stack, inflight >>
    /\ UNCHANGED authVars

\* the call returns; when an earlier call is remembered, this one counts as
\* a call made after it
ReturnKeeping ==
    /\ pc = "done"
    /\ seen' = IF seen.set /\ seen.between < MaxBetween
               THEN [ seen EXCEPT !.between = @ + 1 ]
               ELSE seen
    /\ CallCleared
    /\ UNCHANGED << RoleDefinitions, stack, inflight >>
    /\ UNCHANGED authVars

----------------------------------------------------------------------------
(* Requests in flight: each gate runs synchronously, so a request is
   authorized in one step, in any order relative to the other requests *)

\* the gate's own check on the role of a verified token
gateCheck(route, role) ==
    CASE route.fn = "requireRole" -> hasRequiredRole(role, route.requiredRole)
      [] route.fn = "requirePermission" ->
           hasPermission(role, route.requiredPermission)
      [] route.fn = "requirePermissions" ->
           requirePermissionsAllows(role, route.requiredPermissions)
      [] route.fn = "requireManager" -> requireManagerAllows(role)

\* the gate of the route run on the token
gateRun(route, token) ==
    LET v == verifyToken(token) IN gateOutcome(v, gateCheck(route, v.user.role))

\* a request reaches its route's gate
Arrive(i) ==
    /\ inflight[i].state = "none"
    /\ \E route \in GateRoutes, token \in ConcurrentTokens :
        inflight' = [ inflight EXCEPT
                        ![i] = [ NoRequest EXCEPT !.state = "pending",
                                                  !.route = route,
                                                  !.token = token ] ]
    /\ UNCHANGED << RoleDefinitions, pc, call, ret, threw, permsOut, res,
                    nextCalled, stack, seen >>
    /\ UNCHANGED authVars

\* requireRole's hasRequiredRole walking the required list with pop(), which
\* empties the registry's array
Authorize_popsList(i) ==
    /\ inflight[i].state = "pending"
    /\ LET out == gateRun(inflight[i].route, inflight[i].token) IN
       inflight' = [ inflight EXCEPT ![i].state = "answered",
                                     ![i].res = out.res,
                                     ![i].nextCalled = out.nextCalled ]
    /\ RoleDefinitions' =
         IF /\ inflight[i].route.fn = "requireRole"
            /\ inflight[i].token.tokenOk
            /\ isValidRole(inflight[i].token.role)
            /\ inflight[i].token.role # Role.Admin
         THEN [ RoleDefinitions EXCEPT
                  ![inflight[i].route.requiredRole].permissions = << >> ]
         ELSE RoleDefinitions
    /\ UNCHANGED << pc, call, ret, threw, permsOut, res,
                    nextCalled, stack, seen >>
    /\ UNCHANGED authVars

\* the gate handles request i: it answers or calls next()
Authorize(i) ==
    /\ inflight[i].state = "pending"
    /\ LET out == gateRun(inflight[i].route, inflight[i].token) IN
       inflight' = [ inflight EXCEPT ![i].state = "answered",
                                     ![i].res = out.res,
                                     ![i].nextCalled = out.nextCalled ]
    /\ UNCHANGED << RoleDefinitions, pc, call, ret, threw, permsOut, res,
                    nextCalled, stack, seen >>
    /\ UNCHANGED authVars

\* request i is over
Finish(i) ==
    /\ inflight[i].state = "answered"
    /\ inflight' = [ inflight EXCEPT ![i] = NoRequest ]
    /\ UNCHANGED << RoleDefinitions, pc, call, ret, threw, permsOut, res,
                    nextCalled, stack, seen >>
    /\ UNCHANGED authVars

RequestArrives == \E i \in 1..MaxInFlight : Arrive(i)
RequestAuthorized == \E i \in 1..MaxInFlight : Authorize(i)
RequestFinishes == \E i \in 1..MaxInFlight : Finish(i)


----------------------------------------------------------------------------
(* POST /auth/login *)

\* one login request, from findOne to the response
Login ==
    /\ pc = "idle"
    /\ \E email \in LoginEmails, password \in LoginPasswords :
        LET account == findOne(email)
            out == login(account, password, jwtSecret) IN
        /\ call' = [ NoCall EXCEPT !.fn = "login",
                                   !.email = email,
                                   !.password = password ]
        /\ res' = << out.status >>
        /\ ret' = out.token
        /\ issued' = IF out.token
                     THEN issued \cup { [ email |-> email, role |-> account.role ] }
                     ELSE issued
    /\ pc' = "done"
    /\ UNCHANGED << RoleDefinitions, threw, permsOut, nextCalled, stack,
                    seen, inflight, accounts, jwtSecret, expired, revoked,
                    registering >>

\* the collection and the environment the server runs with
InitLogin ==
    /\ RoleDefinitions = ShippedRoleDefinitions
    /\ pc = "idle"
    /\ call = NoCall
    /\ ret = FALSE
    /\ threw = FALSE
    /\ permsOut = << >>
    /\ res = << >>
    /\ nextCalled = FALSE
    /\ stack = << >>
    /\ seen = NoSeen
    /\ inflight = [ i \in 1..MaxInFlight |-> NoRequest ]
    /\ accounts \in [ Emails -> AccountDocs ]
    /\ jwtSecret \in BOOLEAN
    /\ issued = {}
    /\ expired = {}
    /\ revoked = {}
    /\ registering = [ i \in 1..MaxRegistrations |-> NoRegistration ]

NextLogin ==
    \/ Login
    \/ Return

SpecLogin == InitLogin /\ [][NextLogin]_vars


----------------------------------------------------------------------------
(* routes/AuthRoutes.ts: POST /auth/revoke, POST /auth/check-token,
   GET /auth/me, and a gate presented with an issued token *)

\* no token in the body, no Authorization header
NoToken == [ email |-> "", role |-> "" ]

\* the accounts of the running shop: a self-registered customer and a manager
SessionAccounts ==
    ( "a@shop" :> [ exists |-> TRUE, isVerified |-> TRUE, isActive |-> TRUE,
                    password |-> hash("password123"), role |-> "user" ] ) @@
    ( "b@shop" :> [ exists |-> TRUE, isVerified |-> TRUE, isActive |-> TRUE,
                    password |-> hash("password123"),
                    role |-> Role.EmployeeManager ] )

\* tokens a client can present: the payloads login signs, signed by the
\* server once they are in `issued` and by somebody else before that
SessionTokens == { [ email |-> e, role |-> SessionAccounts[e].role ] : e \in Emails }
PresentedTokens == SessionTokens \cup { NoToken }

\* jwt.verify(token, JWT_SECRET) succeeds: signed by this server, exp not passed
jwtVerify(token) == token \in issued /\ token \notin expired

\* the handler of POST /auth/revoke: the status it answers
revokeRoute(token, secret) ==
    IF token = NoToken THEN 401
    ELSE IF ~secret THEN InternalError
    ELSE IF ~jwtVerify(token) THEN 401
    ELSE IF token \in expired THEN 401
    ELSE 200

\* the handler of POST /auth/check-token: the status it answers
checkTokenRoute(token, secret) ==
    IF token = NoToken THEN 401
    ELSE IF ~secret THEN InternalError
    ELSE IF ~jwtVerify(token) THEN 401
    ELSE IF token \in expired THEN 401
    ELSE 200

\* the handler of GET /auth/me: the status it answers
meRoute(token, secret) ==
    IF token = NoToken THEN 401
    ELSE IF ~secret THEN InternalError
    ELSE IF ~jwtVerify(token) THEN 401
    ELSE 200

\* the request a gate sees when the client presents `token`
bearerRequest(token) ==
    [ role |-> token.role,
      hasAuthHeader |-> token # NoToken,
      tokenOk |-> jwtSecret /\ jwtVerify(token) ]

\* POST /auth/revoke; `revoked` keeps the tokens it answered 200 for
Revoke ==
    /\ pc = "idle"
    /\ \E token \in PresentedTokens :
        LET status == revokeRoute(token, jwtSecret) IN
        /\ call' = [ NoCall EXCEPT !.fn = "revoke", !.token = token ]
        /\ res' = << status >>
        /\ revoked' = IF status = 200 THEN revoked \cup { token } ELSE revoked
    /\ pc' = "done"
    /\ UNCHANGED << RoleDefinitions, ret, threw, permsOut, nextCalled, stack,
                    seen, inflight, accounts, jwtSecret, issued, expired,
                    registering >>

\* POST /auth/check-token
CheckToken ==
    /\ pc = "idle"
    /\ \E token \in PresentedTokens :
        /\ call' = [ NoCall EXCEPT !.fn = "check-token", !.token = token ]
        /\ res' = << checkTokenRoute(token, jwtSecret) >>
    /\ pc' = "done"
    /\ UNCHANGED << RoleDefinitions, ret, threw, permsOut, nextCalled, stack >>
    /\ UNCHANGED outside

\* GET /auth/me
Me ==
    /\ pc = "idle"
    /\ \E token \in PresentedTokens :
        /\ call' = [ NoCall EXCEPT !.fn = "me", !.token = token ]
        /\ res' = << meRoute(token, jwtSecret) >>
    /\ pc' = "done"
    /\ UNCHANGED << RoleDefinitions, ret, threw, permsOut, nextCalled, stack >>
    /\ UNCHANGED outside

\* requireManager() handles a request that presents `token`
RequireManagerBearer ==
    /\ pc = "idle"
    /\ \E token \in PresentedTokens :
        LET req == bearerRequest(token)
            out == gateOutcome(verifyToken(req), requireManagerAllows(req.role)) IN
        /\ call' = [ NoCall EXCEPT !.fn = "requireManager",
                                   !.userRole = req.role,
                                   !.hasAuthHeader = req.hasAuthHeader,
                                   !.tokenOk = req.tokenOk,
                                   !.token = token ]
        /\ res' = out.res
        /\ nextCalled' = out.nextCalled
    /\ pc' = "done"
    /\ UNCHANGED << RoleDefinitions, stack, ret, threw, permsOut >>
    /\ UNCHANGED outside

\* a day has passed since `token` was signed (expiresIn: "1d")
TokenExpires ==
    /\ pc = "idle"
    /\ \E token \in issued \ expired :
        expired' = expired \cup { token }
    /\ UNCHANGED << RoleDefinitions, pc, call, ret, threw, permsOut, res,
                    nextCalled, stack, seen, inflight, accounts, jwtSecret,
                    issued, revoked, registering >>

InitSession ==
    /\ RoleDefinitions = ShippedRoleDefinitions
    /\ pc = "idle"
    /\ call = NoCall
    /\ ret = FALSE
    /\ threw = FALSE
    /\ permsOut = << >>
    /\ res = << >>
    /\ nextCalled = FALSE
    /\ stack = << >>
    /\ seen = NoSeen
    /\ inflight = [ i \in 1..MaxInFlight |-> NoRequest ]
    /\ accounts = SessionAccounts
    /\ jwtSecret = TRUE
    /\ issued = {}
    /\ expired = {}
    /\ revoked = {}
    /\ registering = [ i \in 1..MaxRegistrations |-> NoRegistration ]

NextSession ==
    \/ Login
    \/ Revoke
    \/ CheckToken
    \/ Me
    \/ RequireManagerBearer
    \/ TokenExpires
    \/ Return

SpecSession == InitSession /\ [][NextSession]_vars


----------------------------------------------------------------------------
(* POST /auth/register: the promise chain, one step per callback *)

\* the request arrives: findOne, the first .then callback, and the .then or
\* .catch that follows it in the same chain; hash() is started, not awaited
Register(i) ==
    /\ registering[i].state = "none"
    /\ \E body \in RegisterBodies :
        LET status == registerChecks(findOne(body.email), body, jwtSecret) IN
        registering' = [ registering EXCEPT ![i] =
            [ state |-> IF status = 200 THEN "hashing" ELSE "answered",
              email |-> body.email,
              password |-> body.password,
              res |-> << status >> ] ]
    /\ UNCHANGED << RoleDefinitions, pc, call, ret, threw, permsOut, res,
                    nextCalled, stack, seen, inflight, accounts, jwtSecret,
                    issued, expired, revoked >>

\* hash(password, 10) resolves; the second findOne is started
RegisterHashed(i) ==
    /\ registering[i].state = "hashing"
    /\ registering' = [ registering EXCEPT
                          ![i].state = "finding",
                          ![i].password = hash(registering[i].password) ]
    /\ UNCHANGED << RoleDefinitions, pc, call, ret, threw, permsOut, res,
                    nextCalled, stack, seen, inflight, accounts, jwtSecret,
                    issued, expired, revoked >>

\* the second findOne resolves: AccountExisted is thrown inside a promise
\* nobody returned, or AccountModel.create runs and stores the document or
\* rejects; neither failure reaches .catch
RegisterCreate(i) ==
    /\ registering[i].state = "finding"
    /\ IF findOne(registering[i].email).exists
       THEN /\ registering' = [ registering EXCEPT ![i].state = "failed" ]
            /\ UNCHANGED accounts
       ELSE \E stored \in BOOLEAN :
            IF stored
            THEN /\ registering' = [ registering EXCEPT ![i].state = "created" ]
                 /\ accounts' = [ accounts EXCEPT ![registering[i].email] =
                                    createdAccount(registering[i].password) ]
            ELSE /\ registering' = [ registering EXCEPT ![i].state = "failed" ]
                 /\ UNCHANGED accounts
    /\ UNCHANGED << RoleDefinitions, pc, call, ret, threw, permsOut, res,
                    nextCalled, stack, seen, inflight, jwtSecret,
                    issued, expired, revoked >>

\* nothing of the request is left
RegisterEnds(i) ==
    /\ registering[i].state \in { "answered", "created", "failed" }
    /\ registering' = [ registering EXCEPT ![i] = NoRegistration ]
    /\ UNCHANGED << RoleDefinitions, pc, call, ret, threw, permsOut, res,
                    nextCalled, stack, seen, inflight, accounts, jwtSecret,
                    issued, expired, revoked >>

RegisterArrives == \E i \in 1..MaxRegistrations : Register(i)
RegisterHashes == \E i \in 1..MaxRegistrations : RegisterHashed(i)
RegisterCreates == \E i \in 1..MaxRegistrations : RegisterCreate(i)
RegisterForgotten == \E i \in 1..MaxRegistrations : RegisterEnds(i)

NextRegister ==
    \/ RegisterArrives
    \/ RegisterHashes
    \/ RegisterCreates
    \/ RegisterForgotten
    \/ Login
    \/ Return

SpecRegister == Init /\ [][NextRegister]_vars


----------------------------------------------------------------------------
(* routes/EmployeeRoutes.ts: the manager-gated endpoints as they are mounted,
   EmployeeRoutes.post(path, limiter, requireManager, handler) *)

\* the endpoints that name requireManager in their middleware list
ManagerEndpoints ==
    { [ fn |-> path, requiredRole |-> "", requiredPermission |-> "",
        requiredPermissions |-> << >> ] :
      path \in { "/employee/update-status", "/employee/verify" } }

\* what Express gets when it calls the mounted function with (req, res, next):
\* requireManager takes no parameters, builds the middleware and returns it;
\* res and next are not touched
mountedRequireManager(token) ==
    [ res |-> << >>, nextCalled |-> FALSE ]

\* a request reaches a manager-gated endpoint and has passed limiter
EndpointArrive(i) ==
    /\ inflight[i].state = "none"
    /\ \E route \in ManagerEndpoints, token \in ConcurrentTokens :
        inflight' = [ inflight EXCEPT
                        ![i] = [ NoRequest EXCEPT !.state = "pending",
                                                  !.route = route,
                                                  !.token = token ] ]
    /\ UNCHANGED << RoleDefinitions, pc, call, ret, threw, permsOut, res,
                    nextCalled, stack, seen >>
    /\ UNCHANGED authVars

\* Express calls the second function of the middleware list
EndpointGate(i) ==
    /\ inflight[i].state = "pending"
    /\ LET out == mountedRequireManager(inflight[i].token) IN
       inflight' = [ inflight EXCEPT
                       ![i].state = IF out.res # << >> \/ out.nextCalled
                                    THEN "answered" ELSE "returned",
                       ![i].res = out.res,
                       ![i].nextCalled = out.nextCalled ]
    /\ UNCHANGED << RoleDefinitions, pc, call, ret, threw, permsOut, res,
                    nextCalled, stack, seen >>
    /\ UNCHANGED authVars

EndpointArrives == \E i \in 1..MaxInFlight : EndpointArrive(i)
EndpointGated == \E i \in 1..MaxInFlight : EndpointGate(i)

NextEndpoint ==
    \/ EndpointArrives
    \/ EndpointGated

\* Express runs each middleware of a request that has arrived
SpecEndpoint ==
    /\ Init
    /\ [][NextEndpoint]_vars
    /\ \A i \in 1..MaxInFlight : WF_vars(EndpointGate(i))

Next ==
    \/ CallGetAllPermissions
    \/ CallHasPermission
    \/ CallHasAllPermissions
    \/ CallHasRequiredRole
    \/ CallCompareManagerRoles
    \/ RequireManager
    \/ RequireRole
    \/ RequirePermission
    \/ RequirePermissions
    \/ LegacyRoleAuth
    \/ LoginAuth
    \/ ResolveCall
    \/ ResolveStep
    \/ Return

Spec == Init /\ [][Next]_vars


----------------------------------------------------------------------------
(* getAllPermissions run frame by frame *)

\* hasPermission and hasRequiredRole are the callers of getAllPermissions
NextTermination ==
    \/ ResolveCall
    \/ ResolveStep
    \/ CallHasPermission
    \/ CallHasRequiredRole
    \/ Return

\* a call that has been entered runs until it returns or throws: nothing
\* else is scheduled while a synchronous call is on the stack
SpecTermination ==
    Init /\ [][NextTermination]_vars /\ WF_vars(ResolveStep)

\* registries that differ from the shipped one by one extendFrom list that
\* closes a cycle
CyclicRegistries ==
    { [ ShippedRoleDefinitions EXCEPT
          ![r] = [ isManager   |-> ShippedRoleDefinitions[r].isManager,
                   extendFrom  |-> << p >>,
                   permissions |-> ShippedRoleDefinitions[r].permissions ] ] :
      <<r, p>> \in { << Role.Customer, Role.Customer >>,
                     << Role.Customer, Role.Employee >>,
                     << Role.Customer, Role.EmployeeManager >>,
                     << Role.Accounting, Role.Accounting >> } }

InitMalformed ==
    /\ RoleDefinitions \in CyclicRegistries
    /\ pc = "idle"
    /\ call = NoCall
    /\ ret = FALSE
    /\ threw = FALSE
    /\ permsOut = << >>
    /\ res = << >>
    /\ nextCalled = FALSE
    /\ stack = << >>
    /\ seen = NoSeen
    /\ inflight = [ i \in 1..MaxInFlight |-> NoRequest ]
    /\ accounts = [ e \in Emails |-> NoAccount ]
    /\ jwtSecret = TRUE
    /\ issued = {}
    /\ expired = {}
    /\ revoked = {}
    /\ registering = [ i \in 1..MaxRegistrations |-> NoRegistration ]

NextResolve ==
    \/ ResolveCall
    \/ ResolveStep
    \/ Return

SpecMalformed == InitMalformed /\ [][NextResolve]_vars


----------------------------------------------------------------------------
(* Decision calls repeated, and requests authorized concurrently *)

NextRepeat ==
    \/ CallHasPermission
    \/ CallHasAllPermissionsOfRole
    \/ CallHasRequiredRole
    \/ RequireManager
    \/ ReturnRemember
    \/ ReturnKeeping

SpecRepeat == Init /\ [][NextRepeat]_vars

NextConcurrent ==
    \/ RequestArrives
    \/ RequestAuthorized
    \/ RequestFinishes

SpecConcurrent == Init /\ [][NextConcurrent]_vars

----------------------------------------------------------------------------
(* Properties *)

Done(fn) == pc = "done" /\ call.fn = fn

\* the token of the request verified, so call.userRole is the caller's role
Verified == call.hasAuthHeader /\ call.tokenOk

\* roles reachable from the roles of S along extendFrom edges, S included
RECURSIVE ReachableRoles(_)
ReachableRoles(S) ==
    LET parents == UNION { IF "extendFrom" \in DOMAIN RoleDefinitions[r]
                           THEN Elements(RoleDefinitions[r].extendFrom)
                           ELSE {} : r \in S }
    IN IF parents \subseteq S THEN S ELSE ReachableRoles(S \cup parents)

DirectPermissions(role) == Elements(RoleDefinitions[role].permissions)

\* C1: for a valid role other than Admin, hasPermission(role, p) returns true
\* exactly when p is among getAllPermissions(role), and does not raise.
C1_HasPermissionIsMembership ==
    ( /\ Done("hasPermission")
      /\ isValidRole(call.userRole)
      /\ call.userRole # Role.Admin )
    => /\ ~threw
       /\ ret = (call.requiredPermission
                    \in Elements(getAllPermissions(call.userRole)))

\* hasPermission granted an inherited permission and refused nothing it holds
C1_Witness ==
    /\ Done("hasPermission")
    /\ call.userRole = Role.Employee
    /\ call.requiredPermission = Permission.VIEW_PRODUCTS
    /\ ret

\* C2: hasPermission("Admin", p) is true for every Permission value p,
\* also for those Admin does not declare.
C2_AdminHasEveryPermission ==
    ( Done("hasPermission") /\ call.userRole = Role.Admin )
    => ( ret /\ ~threw )

C2_Witness ==
    /\ Done("hasPermission")
    /\ call.userRole = Role.Admin
    /\ ~includes(RoleDefinitions[Role.Admin].permissions, call.requiredPermission)
    /\ ret

\* C3: for a role claim that is not a Role value, hasPermission,
\* hasAllPermissions and hasRequiredRole return false without raising, and
\* the manager gate does not call next() and answers the request.
C3_InvalidRoleDenied ==
    ( pc = "done" /\ call.userRole \notin RoleValues )
    => /\ call.fn \in { "hasPermission", "hasAllPermissions", "hasRequiredRole" }
            => ( ~threw /\ ret = FALSE )
       /\ call.fn = "requireManager"
            => ( ~nextCalled /\ res # << >> )

\* hasAllPermissions refused a wrong-case role claim even for an empty list
C3_Witness ==
    /\ Done("hasAllPermissions")
    /\ call.userRole = "admin"
    /\ call.requiredPermissions = << >>
    /\ ~ret

\* C4: the permissions getAllPermissions(R) returns are R's direct permissions
\* together with getAllPermissions(P) of every parent P, which is exactly the
\* direct permissions of R and of every role reachable from R via extendFrom.
C4_GetAllPermissionsIsClosure ==
    Done("getAllPermissions") =>
        LET R == call.userRole
            parents == IF "extendFrom" \in DOMAIN RoleDefinitions[R]
                       THEN Elements(RoleDefinitions[R].extendFrom) ELSE {}
        IN /\ Elements(permsOut) =
                DirectPermissions(R) \cup
                UNION { Elements(getAllPermissions(P)) : P \in parents }
           /\ Elements(permsOut) =
                UNION { DirectPermissions(A) : A \in ReachableRoles({R}) }

\* a role two levels down received its grandparent's permission
C4_Witness ==
    /\ Done("getAllPermissions")
    /\ call.userRole = Role.EmployeeManager
    /\ includes(permsOut, Permission.PLACE_ORDERS)

\* C5: for a valid non-Admin userRole and a valid requiredRole,
\* hasRequiredRole is true exactly when the user's effective permissions
\* contain every permission of requiredRole's direct list.
C5_RequiredRoleIsDirectCoverage ==
    ( /\ Done("hasRequiredRole")
      /\ isValidRole(call.userRole)
      /\ call.userRole # Role.Admin
      /\ isValidRole(call.requiredRole) )
    => /\ ~threw
       /\ ret = ( DirectPermissions(call.requiredRole)
                    \subseteq Elements(getAllPermissions(call.userRole)) )

\* a role passed the gate of a different role whose list it covers
C5_Witness ==
    /\ Done("hasRequiredRole")
    /\ call.userRole = Role.EmployeeManager
    /\ call.requiredRole = Role.Employee
    /\ ret

\* C6: hasRequiredRole("Employee", Role.Customer) is true and
\* hasRequiredRole("Customer", Role.Employee) is false.
C6_EmployeeCustomerAsymmetry ==
    Done("hasRequiredRole") =>
        /\ ( call.userRole = Role.Employee /\ call.requiredRole = Role.Customer )
              => ret
        /\ ( call.userRole = Role.Customer /\ call.requiredRole = Role.Employee )
              => ~ret

C6_Witness ==
    /\ Done("hasRequiredRole")
    /\ call.userRole = Role.Customer
    /\ call.requiredRole = Role.Employee
    /\ ~ret

\* C7: hasRequiredRole with the Admin role claim is true for every required
\* Role value.
C7_AdminPassesEveryRoleGate ==
    ( /\ Done("hasRequiredRole")
      /\ call.userRole = Role.Admin
      /\ call.requiredRole \in RoleValues )
    => ( ret /\ ~threw )

C7_Witness ==
    /\ Done("hasRequiredRole")
    /\ call.userRole = Role.Admin
    /\ call.requiredRole = Role.WarehouseManager
    /\ ret

\* C8: for a valid role, hasAllPermissions(role, required) is true if and
\* only if hasPermission(role, p) is true for every element p of required.
C8_HasAllIsEveryHasPermission ==
    ( Done("hasAllPermissions") /\ isValidRole(call.userRole) )
    => ret = ( \A i \in 1..Len(call.requiredPermissions) :
                  hasPermission(call.userRole, call.requiredPermissions[i]) )

\* one held and one missing permission: refused
C8_Witness ==
    /\ Done("hasAllPermissions")
    /\ call.userRole = Role.Employee
    /\ call.requiredPermissions =
          << Permission.VIEW_PRODUCTS, Permission.MANAGE_EMPLOYEES >>
    /\ ~ret

\* C9: hasAllPermissions(role, []) is true for every valid role.
C9_EmptyListAllowed ==
    ( /\ Done("hasAllPermissions")
      /\ isValidRole(call.userRole)
      /\ call.requiredPermissions = << >> )
    => ret

C9_Witness ==
    /\ Done("hasAllPermissions")
    /\ call.userRole = Role.Customer
    /\ call.requiredPermissions = << >>
    /\ ret

\* C10: for a verified caller the manager gate calls next() exactly when the
\* caller's role has isManager set in the registry or is Admin; it allows
\* WarehouseManager, denies Employee, and allows Admin, whose flag is false.
C10_ManagerGate ==
    ( Done("requireManager") /\ Verified )
    => /\ nextCalled =
            ( \/ /\ call.userRole \in RoleValues
                 /\ RoleDefinitions[call.userRole].isManager
              \/ call.userRole = Role.Admin )
       /\ call.userRole = Role.WarehouseManager => nextCalled
       /\ call.userRole = Role.Employee => ~nextCalled
       /\ call.userRole = Role.Admin
            => ( nextCalled /\ ~RoleDefinitions[Role.Admin].isManager )

C10_Witness ==
    /\ Done("requireManager")
    /\ Verified
    /\ call.userRole = Role.Admin
    /\ nextCalled
    /\ res = << >>

\* the roles a role names in extendFrom
Parents(role) ==
    IF "extendFrom" \in DOMAIN RoleDefinitions[role]
    THEN Elements(RoleDefinitions[role].extendFrom) ELSE {}

\* C11: getAllPermissions(EmployeeManager) yields exactly nine distinct
\* permissions: its own four, Employee's three and Customer's two, collected
\* in that order along the chain EmployeeManager -> Employee -> Customer.
C11_EmployeeManagerNinePermissions ==
    ( Done("getAllPermissions") /\ call.userRole = Role.EmployeeManager )
    => /\ permsOut = << Permission.MANAGE_EMPLOYEES,
                        Permission.MANAGE_SCHEDULES,
                        Permission.VIEW_EMPLOYEE_RECORDS,
                        Permission.VIEW_ALL_REPORTS,
                        Permission.VIEW_OWN_PROFILE,
                        Permission.SUBMIT_REPORTS,
                        Permission.VIEW_SUPPLIERS,
                        Permission.VIEW_PRODUCTS,
                        Permission.PLACE_ORDERS >>
       /\ Cardinality(Elements(permsOut)) = 9

C11_Witness ==
    /\ Done("getAllPermissions")
    /\ call.userRole = Role.EmployeeManager
    /\ Len(permsOut) = 9

\* C17: in the registry every role named in an extendFrom list is a key of
\* the registry, and no role reaches itself along extendFrom edges.
C17_RegistryWellFormed ==
    /\ \A r \in DOMAIN RoleDefinitions : Parents(r) \subseteq DOMAIN RoleDefinitions
    /\ \A r \in DOMAIN RoleDefinitions : r \notin ReachableRoles(Parents(r))

\* the registry in use has a chain of two extendFrom edges
C17_Witness ==
    /\ Done("getAllPermissions")
    /\ call.userRole = Role.EmployeeManager
    /\ ReachableRoles(Parents(Role.EmployeeManager))
          = { Role.Employee, Role.Customer }

\* the four gates of middleware/auth/RoleAuth.ts
GateFns == { "requireRole", "requirePermission", "requirePermissions",
             "requireManager" }

\* the decision function each gate stands for, applied to the token's role
GateDecision ==
    CASE call.fn = "requireRole" ->
           hasRequiredRole(call.userRole, call.requiredRole)
      [] call.fn = "requirePermission" ->
           hasPermission(call.userRole, call.requiredPermission)
      [] call.fn = "requirePermissions" ->
           hasAllPermissions(call.userRole, call.requiredPermissions)
      [] call.fn = "requireManager" ->
           \/ /\ call.userRole \in RoleValues
              /\ RoleDefinitions[call.userRole].isManager
           \/ call.userRole = Role.Admin
      [] OTHER -> FALSE

\* C12: a gate calls next() only when the token verified and the
\* authorization decision for the token's role is true; when the decision is
\* false it sends an access-denied response and does not call next().
C12_NextOnlyWhenAllowed ==
    ( pc = "done" /\ call.fn \in GateFns )
    => /\ nextCalled => ( Verified /\ GateDecision )
       /\ ( Verified /\ ~GateDecision ) => ( ~nextCalled /\ res = << 403 >> )

\* C12 for the three gates whose check is the decision function itself
C12_NextOnlyWhenAllowedExceptPermissions ==
    ( pc = "done" /\ call.fn \in GateFns \ { "requirePermissions" } )
    => /\ nextCalled => ( Verified /\ GateDecision )
       /\ ( Verified /\ ~GateDecision ) => ( ~nextCalled /\ res = << 403 >> )

\* C13: a gate answers 401 when the Authorization header is missing or the
\* token fails verification, and 403 when the token verifies but the role is
\* insufficient.
C13_StatusCodes ==
    ( pc = "done" /\ call.fn \in GateFns \cup { "RoleAuth", "LoginAuth" } )
    => /\ ~Verified => ( res # << >> /\ \A i \in 1..Len(res) : res[i] = 401 )
       /\ ( Verified /\ ~nextCalled ) => res = << 403 >>

\* C14: after any sequence of calls every role's isManager flag, direct
\* permission list and extendFrom list are those the registry was built with.
C14_RegistryNeverMutated ==
    /\ DOMAIN RoleDefinitions = DOMAIN ShippedRoleDefinitions
    /\ \A r \in DOMAIN RoleDefinitions :
        /\ RoleDefinitions[r].isManager = ShippedRoleDefinitions[r].isManager
        /\ RoleDefinitions[r].permissions = ShippedRoleDefinitions[r].permissions
        /\ DOMAIN RoleDefinitions[r] = DOMAIN ShippedRoleDefinitions[r]
        /\ "extendFrom" \in DOMAIN RoleDefinitions[r]
             => RoleDefinitions[r].extendFrom = ShippedRoleDefinitions[r].extendFrom

\* a call that read a registry list has run and the list is as shipped
C14_Witness ==
    /\ Done("hasRequiredRole")
    /\ call.userRole = Role.Customer
    /\ call.requiredRole = Role.Employee
    /\ Len(RoleDefinitions[Role.Employee].permissions) = 3

\* C16: on the shipped registry every getAllPermissions call that is entered
\* returns, without exhausting the call stack, for every role.
C16_ResolutionTerminates ==
    ( pc = "resolving" ) ~> ( Done("getAllPermissions") /\ ~threw )

\* the call for EmployeeManager is three frames deep
C16_Witness ==
    /\ pc = "resolving"
    /\ Len(stack) = 3
    /\ stack[1].role = Role.EmployeeManager
    /\ stack[2].role = Role.Employee
    /\ stack[3].role = Role.Customer

\* C18: on a registry whose extendFrom relation has a cycle, resolution
\* enters no role twice (it tracks the visited roles) and returns a partial
\* union of the reachable roles' permissions instead of failing.
C18_CycleGuarded ==
    /\ pc = "resolving"
         => \A i, j \in 1..Len(stack) : stack[i].role = stack[j].role => i = j
    /\ Done("getAllPermissions")
         => /\ ~threw
            /\ Elements(permsOut) \subseteq
                 UNION { DirectPermissions(A) :
                           A \in ReachableRoles({ call.userRole }) }

\* C15: a decision call with the arguments of an earlier call has the
\* earlier call's result, whatever calls were made in between.
C15_SameInputsSameResult ==
    ( pc = "done" /\ seen.set /\ call = seen.call )
    => /\ ret = seen.ret
       /\ threw = seen.threw
       /\ nextCalled = seen.nextCalled
       /\ res = seen.res

\* a role check repeated after another call was made in between
C15_Witness ==
    /\ Done("hasRequiredRole")
    /\ seen.set
    /\ seen.between >= 1
    /\ call = seen.call
    /\ call.userRole = Role.Customer
    /\ call.requiredRole = Role.Employee
    /\ ~ret

LoginAccount == findOne(call.email)

LoginGood ==
    /\ LoginAccount.exists
    /\ LoginAccount.isVerified
    /\ LoginAccount.password # null
    /\ call.password \in Passwords
    /\ LoginAccount.password = hash(call.password)
    /\ LoginAccount.isActive

\* C20: POST /auth/login answers with a token only for an account that
\* exists, is verified, has the submitted password and is active; in every
\* other case there is no token and the answer is 404 when there is no
\* account, otherwise 403 (not verified or disabled) or 401 (wrong or
\* missing password).
C20_LoginTokenOnlyForGoodAccount ==
    Done("login") =>
        /\ ret => LoginGood
        /\ ret => [ email |-> call.email, role |-> LoginAccount.role ] \in issued
        /\ ~LoginGood =>
             /\ ~ret
             /\ res \in { << 404 >>, << 403 >>, << 401 >> }
             /\ res = << 404 >> <=> ~LoginAccount.exists
             /\ res = << 403 >> =>
                  ( ~LoginAccount.isVerified \/ ~LoginAccount.isActive )

\* C20, first half only: a token is answered only for a good account, and
\* without a token the status is never 200.
C20_TokenImpliesGoodAccount ==
    Done("login") =>
        /\ ret => ( LoginGood /\ res = << 200 >> )
        /\ ~ret => res \in { << 404 >>, << 403 >>, << 401 >>, << 500 >> }

\* the request in `call` presented a token that /auth/revoke has answered
\* "Token revoked" for
PresentsRevoked == call.token # NoToken /\ call.token \in revoked

\* C21: once POST /auth/revoke has answered "Token revoked" for a token,
\* every later POST /auth/check-token, GET /auth/me and gated request that
\* presents the token is rejected.
C21_RevokedTokenRejected ==
    ( PresentsRevoked /\ pc = "done"
      /\ call.fn \in { "check-token", "me", "requireManager" } ) =>
        /\ res # << 200 >>
        /\ res # << >>
        /\ ~nextCalled

\* C22: POST /auth/register answers success only when the account has been
\* created: whenever a request has been answered "Account created" the
\* account is in the store, and a request whose hashing or creating failed
\* has been answered with an error.
C22_SuccessOnlyWhenCreated ==
    \A i \in 1..MaxRegistrations :
        /\ registering[i].res = << 200 >> => findOne(registering[i].email).exists
        /\ registering[i].state = "failed" => registering[i].res # << 200 >>

\* C22, what does hold: an error answer of the checks leaves the store as
\* it was, and a stored account belongs to a request answered success.
C22_CreatedOnlyAfterSuccess ==
    \A i \in 1..MaxRegistrations :
        registering[i].state \in { "hashing", "finding", "created", "failed" }
            => registering[i].res = << 200 >>

\* how many times the gate in `call` has sent a response or called next()
Outcomes == Len(res) + ( IF nextCalled THEN 1 ELSE 0 )

\* C23: a request that reaches a gate middleware gets at most one outcome:
\* the gate never sends twice and never both sends and calls next(); a
\* request without an Authorization header is answered exactly once.
C23_AtMostOneOutcome ==
    ( pc = "done" /\ call.fn \in GateFns ) =>
        /\ Outcomes <= 1
        /\ ~call.hasAuthHeader => ( Len(res) = 1 /\ ~nextCalled )

\* C23 for requests that carry an Authorization header: one outcome at most,
\* and exactly one unless the decision function threw.
C23_OneOutcomeWithHeader ==
    ( pc = "done" /\ call.fn \in GateFns /\ call.hasAuthHeader ) =>
        /\ Outcomes <= 1
        /\ ~threw => Outcomes = 1

\* request i has its outcome: a response was sent or next() was called
HasOutcome(i) == inflight[i].res # << >> \/ inflight[i].nextCalled

\* C24: every request to a manager-gated endpoint eventually receives an
\* access-denied response or is forwarded to its handler.
C24_ManagerEndpointAnswers ==
    \A i \in 1..MaxInFlight :
        ( inflight[i].state = "pending" ) ~> HasOutcome(i)

\* C24, the state the requests end in: the gate function has returned and
\* the request has neither a response nor a next() call.
C24_ReturnedWithoutOutcome ==
    \A i \in 1..MaxInFlight :
        inflight[i].state = "returned" => ~HasOutcome(i)

\* C25: the middleware of requirePermissions(perms) forwards a verified
\* request exactly when hasAllPermissions(role claim, perms) is true, for
\* every role claim, valid or not, and every list, the empty one included.
C25_RequirePermissionsIsHasAllPermissions ==
    ( Done("requirePermissions") /\ Verified ) =>
        ( nextCalled <=>
            hasAllPermissions(call.userRole, call.requiredPermissions) )

\* C25 away from the empty list: with at least one required permission the
\* middleware and hasAllPermissions agree for every role claim.
C25_AgreeOnNonEmptyLists ==
    ( Done("requirePermissions") /\ Verified
      /\ call.requiredPermissions # << >> ) =>
        ( nextCalled <=>
            hasAllPermissions(call.userRole, call.requiredPermissions) )

\* C26: over the shipped registry permission coverage coincides with the
\* role hierarchy: for a non-Admin role U and a role R,
\* hasRequiredRole(U, R) is true exactly when U is R or U reaches R along
\* extendFrom edges; overlapping permissions open no gate of an unrelated
\* role.
C26_CoverageIsHierarchy ==
    ( /\ Done("hasRequiredRole")
      /\ call.userRole \in RoleValues \ { Role.Admin }
      /\ call.requiredRole \in RoleValues )
    => /\ ~threw
       /\ ret <=> call.requiredRole \in ReachableRoles({ call.userRole })

\* a manager was refused at the gate of a role it shares three permissions
\* with
C26_Witness ==
    /\ Done("hasRequiredRole")
    /\ call.userRole = Role.WarehouseManager
    /\ call.requiredRole = Role.Accounting
    /\ ~ret
    /\ \E p \in DirectPermissions(Role.Accounting) :
          hasPermission(Role.WarehouseManager, p)

\* C27: no role claim other than Admin obtains Admin-level access:
\* hasPermission(U, MANAGE_ALL) is false and hasRequiredRole(U, Role.Admin)
\* is false for every U that is not Admin.
C27_OnlyAdminHasAdminAccess ==
    /\ ( /\ Done("hasPermission")
         /\ call.userRole # Role.Admin
         /\ call.requiredPermission = Permission.MANAGE_ALL )
       => ( ~ret /\ ~threw )
    /\ ( /\ Done("hasRequiredRole")
         /\ call.userRole # Role.Admin
         /\ call.requiredRole = Role.Admin )
       => ( ~ret /\ ~threw )

\* a manager role was refused at the Admin gate
C27_Witness ==
    /\ Done("hasRequiredRole")
    /\ call.userRole = Role.EmployeeManager
    /\ call.requiredRole = Role.Admin
    /\ ~ret

\* C28: hasRequiredRole is false whenever the required role is a string
\* outside the Role enumeration, for every caller role, Admin included: the
\* required role is validated before the Admin bypass.
C28_InvalidRequiredRoleIsFalse ==
    ( Done("hasRequiredRole") /\ call.requiredRole \notin RoleValues )
    => ( ~ret /\ ~threw )

\* Admin was refused at the gate RoleAuth("WarehouseEmployee") builds
C28_Witness ==
    /\ Done("hasRequiredRole")
    /\ call.userRole = Role.Admin
    /\ call.requiredRole = "WarehouseEmployee"
    /\ ~ret

====
